---- MODULE Spec2Model ----
(***************************************************************************)
(* PlanWise API: the in-memory event store, the overlap detector, the      *)
(* advisory (Gemini) wrappers and the create / update / delete workflow of *)
(* EventService, with requests interleaving at their await points.         *)
(***************************************************************************)
EXTENDS Integers, Sequences, FiniteSets, TLC

VARIABLES
    events,     \* the module-level Map<string, INormalizedEvent>, in insertion order
    nextId,     \* the number of the next randomUUID() result
    pc,         \* per request slot: "idle", "priority" (awaiting generatePriority),
                \* "suggest" (awaiting suggestBetterTime)
    op,         \* per request slot: "create" or "update" ("none" when idle)
    pending,    \* per slot: <<createdEvent / updatedEvent>> while awaiting the priority
    conflicts,  \* per slot: the conflicts found, kept across the suggestBetterTime await
    last,       \* what the step just taken did: the request's response, if it ended one
    arg,        \* the eventId argument of the call the step just taken made (0: none)
    probe       \* argument and result of a pure function under a function specification

vars == <<events, nextId, pc, op, pending, conflicts, last, arg, probe>>

---------------------------------------------------------------------------
(* Bounds *)

\* wire instants are 09:00 + 30 min * s for s in 0..MaxSlot
MaxSlot == 2
\* at most MaxIds calls of randomUUID()
MaxIds == 2
\* request slots: the requests that can be in flight at once
Procs == {1, 2}

---------------------------------------------------------------------------
(* Values *)

\* a key that is missing from an object, and a key holding undefined
Absent == "absent"
Undefined == "undefined"

Priorities == {"low", "medium", "high"}

\* a Date on the wire: <<hour, minute>>
WireTimes == { <<9 + (s \div 2), 30 * (s % 2)>> : s \in 0..MaxSlot }

\* new Date(d).getTime(): the instant as a number (minutes of the day here)
GetTime(d) == d[1] * 60 + d[2]

Ids == 1..MaxIds

PriorityInputs == {"high", Absent, Undefined}

\* the time ranges of the inputs: every range that ends after it starts, and one of
\* length zero
ZeroLengthAt == <<9, 30>>
InputRanges ==
    { r \in WireTimes \X WireTimes : GetTime(r[1]) < GetTime(r[2]) }
        \cup { <<ZeroLengthAt, ZeroLengthAt>> }

\* what reaches EventService.updateEventById as eventData: an IEventInput whose
\* priority may be missing or undefined
EventInputs ==
    { [startTime |-> r[1], endTime |-> r[2], priority |-> pr, workingHours |-> Absent] :
        r \in InputRanges, pr \in PriorityInputs }

\* what reaches EventService.createEvent: a missing priority and an undefined one
\* take the same branch there (line 36), so one of them stands for both
CreateInputs == { e \in EventInputs : e.priority # Absent }

NoResponse ==
    [op |-> "none", from |-> "idle", outcome |-> "none", event |-> <<>>,
     conflicts |-> <<>>, suggestion |-> "none", checked |-> <<>>, replaced |-> <<>>]

NoProbe == [kind |-> "none"]

---------------------------------------------------------------------------
(* event.util.ts *)

normalizeEvent(event) ==
    [event EXCEPT !.startTime = GetTime(event.startTime),
                  !.endTime = GetTime(event.endTime)]

\* a slip: no sort, the array comes back in the order it was given
sortEventsNone(evs) == evs

\* the place of e in an array sorted so far: behind every element that the comparator
\* (a, b) => a.startTime - b.startTime does not put after e
RECURSIVE InsertByStart(_, _)
InsertByStart(sorted, e) ==
    IF sorted = <<>> THEN <<e>>
    ELSE IF sorted[Len(sorted)].startTime - e.startTime > 0
         THEN Append(InsertByStart(SubSeq(sorted, 1, Len(sorted) - 1), e),
                     sorted[Len(sorted)])
         ELSE Append(sorted, e)

RECURSIVE SortLoop(_, _, _)
SortLoop(evs, i, acc) ==
    IF i > Len(evs) THEN acc ELSE SortLoop(evs, i + 1, InsertByStart(acc, evs[i]))

\* events.sort(...): Array.prototype.sort is stable
sortEvents(evs) == SortLoop(evs, 1, <<>>)

---------------------------------------------------------------------------
(* The Map of event.service.ts: a sequence in insertion order *)

MapHas(m, id) == \E i \in DOMAIN m : m[i].id = id

MapGet(m, id) == m[CHOOSE i \in DOMAIN m : m[i].id = id]

\* a slip: set only replaces, a new key is dropped
MapSetExistingOnly(m, e) ==
    [i \in DOMAIN m |-> IF m[i].id = e.id THEN e ELSE m[i]]

\* Map.set: replaces in place under an existing key, appends a new key
MapSet(m, e) ==
    IF MapHas(m, e.id)
    THEN [i \in DOMAIN m |-> IF m[i].id = e.id THEN e ELSE m[i]]
    ELSE Append(m, e)

\* a slip: clear() for delete(key)
MapDeleteClear(m, id) == <<>>

\* Map.delete
MapDelete(m, id) == SelectSeq(m, LAMBDA x : x.id # id)

\* Array.from(events.values())
MapValues(m) == m

---------------------------------------------------------------------------
(* ai.service.ts: detectConflictsForEvent *)

\* a slip: the candidate's own stored version is compared like any other event
RECURSIVE DetectLoopNoSkip(_, _, _, _)
DetectLoopNoSkip(event, evs, i, acc) ==
    IF i > Len(evs) THEN acc
    ELSE IF event.startTime < evs[i].endTime /\ event.endTime > evs[i].startTime
         THEN DetectLoopNoSkip(event, evs, i + 1, Append(acc, evs[i]))
    ELSE DetectLoopNoSkip(event, evs, i + 1, acc)

\* a slip: only a candidate that starts inside the existing event is a conflict
OverlapsStartInside(event, existingEvent) ==
    event.startTime >= existingEvent.startTime /\ event.startTime < existingEvent.endTime

\* a slip: closed intervals, so that touching end points conflict
OverlapsClosed(event, existingEvent) ==
    event.startTime <= existingEvent.endTime /\ event.endTime >= existingEvent.startTime

Overlaps(event, existingEvent) ==
    event.startTime < existingEvent.endTime /\ event.endTime > existingEvent.startTime

RECURSIVE DetectLoop(_, _, _, _)
DetectLoop(event, evs, i, acc) ==
    IF i > Len(evs) THEN acc
    ELSE IF evs[i].id = event.id THEN DetectLoop(event, evs, i + 1, acc)
    ELSE IF Overlaps(event, evs[i]) THEN DetectLoop(event, evs, i + 1, Append(acc, evs[i]))
    ELSE DetectLoop(event, evs, i + 1, acc)

detectConflictsForEvent(event, evs) == DetectLoop(event, evs, 1, <<>>)

---------------------------------------------------------------------------
(* ai.service.ts: generatePriority, on the text of the model's response *)

LowerCaseOf ==
    [c \in {"L", "O", "W", "H", "I", "G", "M", "E", "D", "U", "X"} |->
        CASE c = "L" -> "l" [] c = "O" -> "o" [] c = "W" -> "w" [] c = "H" -> "h"
          [] c = "I" -> "i" [] c = "G" -> "g" [] c = "M" -> "m" [] c = "E" -> "e"
          [] c = "D" -> "d" [] c = "U" -> "u" [] c = "X" -> "x"]

\* String.prototype.toLowerCase
ToLowerCase(text) ==
    [i \in DOMAIN text |->
        IF text[i] \in DOMAIN LowerCaseOf THEN LowerCaseOf[text[i]] ELSE text[i]]

WhiteSpace == {" ", "\n", "\t"}

RECURSIVE TrimStart(_)
TrimStart(text) ==
    IF text # <<>> /\ Head(text) \in WhiteSpace THEN TrimStart(Tail(text)) ELSE text

RECURSIVE TrimEnd(_)
TrimEnd(text) ==
    IF text # <<>> /\ text[Len(text)] \in WhiteSpace
    THEN TrimEnd(SubSeq(text, 1, Len(text) - 1))
    ELSE text

\* a slip: trimStart() for trim()
TrimStartOnly(text) == TrimStart(text)

\* String.prototype.trim
Trim(text) == TrimEnd(TrimStart(text))

TextLow == <<"l", "o", "w">>
TextMedium == <<"m", "e", "d", "i", "u", "m">>
TextHigh == <<"h", "i", "g", "h">>

\* a slip: no default, an unclear answer leaves the priority undefined
PriorityOfTextNoDefault(text) ==
    LET t == Trim(ToLowerCase(text))
    IN  IF t = TextLow THEN "low"
        ELSE IF t = TextMedium THEN "medium"
        ELSE IF t = TextHigh THEN "high"
        ELSE Undefined

\* lines 114-122: the priority named by the response text, medium otherwise
PriorityOfText(text) ==
    LET t == Trim(ToLowerCase(text))
    IN  IF t = TextLow THEN "low"
        ELSE IF t = TextMedium THEN "medium"
        ELSE IF t = TextHigh THEN "high"
        ELSE "medium"

\* response texts the model may give to the priority prompt
PriorityTexts ==
    { <<" ", "H", "i", "g", "h", "\n">>,
      <<"u", "r", "g", "e", "n", "t">> }

---------------------------------------------------------------------------
(* ai.service.ts: suggestBetterTime, on the text of the model's response *)

\* a response: whether it holds a ```json fence, and the text inside the fence
JsonObject == "{\"startTime\":\"2025-11-16T11:00:00.000Z\"}"
JsonBodies == {JsonObject, "not json", ""}
SuggestResponses == [fenced : BOOLEAN, body : JsonBodies]

\* JSON.parse: the bodies that parse
JsonParses(body) == body = JsonObject

\* lines 79-92: the parsed object, or null
SuggestionOf(resp) ==
    IF resp.fenced /\ resp.body # ""
    THEN IF JsonParses(resp.body) THEN resp.body ELSE "null"
    ELSE "null"

---------------------------------------------------------------------------
(* event.service.ts: EventService *)

\* !event.priority
NoPriority(event) == event.priority \in {Absent, Undefined}

\* a slip: one id for every event instead of a fresh one
WithIdConstant(event, id) ==
    [id |-> 1, startTime |-> event.startTime, endTime |-> event.endTime,
     priority |-> event.priority, workingHours |-> event.workingHours]

\* { ...event, id: randomUUID() }
WithId(event, id) ==
    [id |-> id, startTime |-> event.startTime, endTime |-> event.endTime,
     priority |-> event.priority, workingHours |-> event.workingHours]

\* { ...existing, ...eventData }: a key of eventData wins when it is present
MergeEvent(existing, eventData) ==
    [id |-> existing.id,
     startTime |-> eventData.startTime,
     endTime |-> eventData.endTime,
     priority |-> IF eventData.priority = Absent
                  THEN existing.priority ELSE eventData.priority,
     workingHours |-> IF eventData.workingHours = Absent
                      THEN existing.workingHours ELSE eventData.workingHours]

\* what the step just taken did for the request of slot p: where the request stood
\* before the step, the candidate its conflict check examined (if it ran one), the
\* response (outcome "none" while the request goes on), and the stored version that
\* events.set replaced (if it replaced one)
StepOf(p, o, outcome, ev, cf, sug, chk) ==
    [op |-> o, from |-> pc[p], outcome |-> outcome, event |-> ev,
     conflicts |-> cf, suggestion |-> sug, checked |-> chk,
     replaced |-> IF outcome = "Committed" /\ MapHas(events, ev[1].id)
                  THEN <<MapGet(events, ev[1].id)>> ELSE <<>>]

\* the request of slot p ends: its response goes out and the slot is free again
Finish(p, o, outcome, ev, cf, sug, chk) ==
    /\ pc' = [pc EXCEPT ![p] = "idle"]
    /\ op' = [op EXCEPT ![p] = "none"]
    /\ pending' = [pending EXCEPT ![p] = <<>>]
    /\ conflicts' = [conflicts EXCEPT ![p] = <<>>]
    /\ last' = StepOf(p, o, outcome, ev, cf, sug, chk)

\* createEvent lines 44-57, updateEventById lines 107-120: snapshot, detection, and
\* either the await of suggestBetterTime or the commit
ConflictCheck(p, o, normalizedEvent) ==
    LET eventsList == MapValues(events)
        found == detectConflictsForEvent(normalizedEvent, eventsList)
    IN  IF Len(found) > 0
        THEN /\ pc' = [pc EXCEPT ![p] = "suggest"]
             /\ op' = [op EXCEPT ![p] = o]
             /\ pending' = [pending EXCEPT ![p] = <<>>]
             /\ conflicts' = [conflicts EXCEPT ![p] = found]
             /\ last' = StepOf(p, o, "none", <<>>, found, "none", <<normalizedEvent>>)
             /\ UNCHANGED events
        ELSE /\ events' = MapSet(events, normalizedEvent)
             /\ Finish(p, o, "Committed", <<normalizedEvent>>, <<>>, "none",
                       <<normalizedEvent>>)

\* createEvent line 43 on: normalizeEvent, then the conflict check
CreateTail(p, createdEvent) ==
    ConflictCheck(p, "create", normalizeEvent(createdEvent))

\* updateEventById line 101 on: normalizeEvent, the time-range check, the conflict check
UpdateTail(p, updatedEvent) ==
    LET normalizedEvent == normalizeEvent(updatedEvent)
    IN  IF normalizedEvent.startTime >= normalizedEvent.endTime
        THEN /\ Finish(p, "update", "InvalidTimeRange", <<>>, <<>>, "none", <<>>)
             /\ UNCHANGED events
        ELSE ConflictCheck(p, "update", normalizedEvent)

\* lines 36-41 / 94-99: await generatePriority when the event has no priority
PriorityStep(p, o, event) ==
    IF NoPriority(event)
    THEN /\ pc' = [pc EXCEPT ![p] = "priority"]
         /\ op' = [op EXCEPT ![p] = o]
         /\ pending' = [pending EXCEPT ![p] = <<event>>]
         /\ last' = StepOf(p, o, "none", <<>>, <<>>, "none", <<>>)
         /\ UNCHANGED <<events, conflicts>>
    ELSE IF o = "create" THEN CreateTail(p, event) ELSE UpdateTail(p, event)

\* a new request takes the first free slot
FreeSlot(p) ==
    /\ pc[p] = "idle"
    /\ \A q \in Procs : pc[q] = "idle" => q >= p

\* EventService.createEvent, up to its first await or its return
CreateEvent(p, event) ==
    /\ FreeSlot(p)
    /\ nextId <= MaxIds
    /\ nextId' = nextId + 1
    /\ PriorityStep(p, "create", WithId(event, nextId))
    /\ arg' = 0
    /\ UNCHANGED probe

\* a slip: no lookup, an id that is not stored is written like a stored one
UpdateEventByIdUpsert(p, eventId, eventData) ==
    /\ FreeSlot(p)
    /\ PriorityStep(p, "update",
                    IF MapHas(events, eventId)
                    THEN MergeEvent(MapGet(events, eventId), eventData)
                    ELSE WithId(eventData, eventId))
    /\ arg' = eventId
    /\ UNCHANGED <<nextId, probe>>

\* EventService.updateEventById, up to its first await or its return
UpdateEventById(p, eventId, eventData) ==
    /\ FreeSlot(p)
    /\ IF ~MapHas(events, eventId)
       THEN /\ Finish(p, "update", "NotFound", <<>>, <<>>, "none", <<>>)
            /\ UNCHANGED events
       ELSE PriorityStep(p, "update", MergeEvent(MapGet(events, eventId), eventData))
    /\ arg' = eventId
    /\ UNCHANGED <<nextId, probe>>

\* generatePriority returns: the model answered with text
PriorityReturn(p, text) ==
    /\ pc[p] = "priority"
    /\ LET event == [pending[p][1] EXCEPT !.priority = PriorityOfText(text)]
       IN  IF op[p] = "create" THEN CreateTail(p, event) ELSE UpdateTail(p, event)
    /\ arg' = 0
    /\ UNCHANGED <<nextId, probe>>

\* generatePriority rejects: model.generateContent (line 112) failed, nothing catches it
PriorityFail(p) ==
    /\ pc[p] = "priority"
    /\ Finish(p, op[p], "AdvisoryError", <<>>, <<>>, "none", <<>>)
    /\ arg' = 0
    /\ UNCHANGED <<events, nextId, probe>>

\* suggestBetterTime returns: { conflicts, suggestion } goes back to the caller
SuggestReturn(p, resp) ==
    /\ pc[p] = "suggest"
    /\ Finish(p, op[p], "ConflictReported", <<>>, conflicts[p], SuggestionOf(resp), <<>>)
    /\ arg' = 0
    /\ UNCHANGED <<events, nextId, probe>>

\* suggestBetterTime rejects: model.generateContent (line 75) failed outside the try
SuggestFail(p) ==
    /\ pc[p] = "suggest"
    /\ Finish(p, op[p], "AdvisoryError", <<>>, <<>>, "none", <<>>)
    /\ arg' = 0
    /\ UNCHANGED <<events, nextId, probe>>

\* a slip: the result of the lookup is not tested, a missing id is answered like a
\* stored one
DeleteEventByIdUntested(eventId) ==
    /\ events' = MapDelete(events, eventId)
    /\ last' = [NoResponse EXCEPT !.op = "delete", !.outcome = "Deleted",
                                  !.event = SelectSeq(events, LAMBDA x : x.id = eventId)]
    /\ arg' = eventId
    /\ UNCHANGED <<nextId, pc, op, pending, conflicts, probe>>

\* EventService.getEventById: <<the event>>, or <<>> for undefined
getEventById(m, eventId) == IF MapHas(m, eventId) THEN <<MapGet(m, eventId)>> ELSE <<>>

\* EventService.getEvents
getEvents(m) == sortEvents(MapValues(m))

\* Array.prototype.includes on event.tags
Includes(tags, tag) == \E i \in DOMAIN tags : tags[i] = tag

\* EventService.filterEventsByTag
filterEventsByTag(m, tag) ==
    SelectSeq(MapValues(m), LAMBDA event : Includes(event.tags, tag))

\* EventService.deleteEventById: synchronous, it takes no slot
DeleteEventById(eventId) ==
    /\ IF ~MapHas(events, eventId)
       THEN /\ last' = [NoResponse EXCEPT !.op = "delete", !.outcome = "NotFound"]
            /\ UNCHANGED events
       ELSE /\ events' = MapDelete(events, eventId)
            /\ last' = [NoResponse EXCEPT !.op = "delete", !.outcome = "Deleted",
                                          !.event = <<MapGet(events, eventId)>>]
    /\ arg' = eventId
    /\ UNCHANGED <<nextId, pc, op, pending, conflicts, probe>>

---------------------------------------------------------------------------
(* The program *)

Init ==
    /\ events = <<>>
    /\ nextId = 1
    /\ pc = [p \in Procs |-> "idle"]
    /\ op = [p \in Procs |-> "none"]
    /\ pending = [p \in Procs |-> <<>>]
    /\ conflicts = [p \in Procs |-> <<>>]
    /\ last = NoResponse
    /\ arg = 0
    /\ probe = NoProbe

Next ==
    \/ \E p \in Procs, event \in CreateInputs : CreateEvent(p, event)
    \/ \E p \in Procs, eventId \in Ids, eventData \in EventInputs :
          UpdateEventById(p, eventId, eventData)
    \/ \E p \in Procs, text \in PriorityTexts : PriorityReturn(p, text)
    \/ \E p \in Procs : PriorityFail(p)
    \/ \E p \in Procs, resp \in SuggestResponses : SuggestReturn(p, resp)
    \/ \E p \in Procs : SuggestFail(p)
    \/ \E eventId \in Ids : DeleteEventById(eventId)

Spec == Init /\ [][Next]_vars

---------------------------------------------------------------------------
(* detectConflictsForEvent on its own: every candidate against every schedule *)

\* the events of the schedules: every id with every pair of instants
MaxScheduleLen == 2
Instants == { GetTime(w) : w \in WireTimes }
DetectIds == {1, 2}
DetectEvents ==
    [id : DetectIds, startTime : Instants, endTime : Instants,
     priority : {"medium"}, workingHours : {Absent}]

RECURSIVE SchedulesOfLen(_)
SchedulesOfLen(n) ==
    IF n = 0 THEN { <<>> }
    ELSE { Append(s, e) : s \in SchedulesOfLen(n - 1), e \in DetectEvents }

\* the schedules of at most n events
DetectSchedules(n) == UNION { SchedulesOfLen(k) : k \in 0..n }

\* the candidates: under an id of the schedule (an update) or under a new id (a create)
DetectCandidates ==
    [id : {1, 3}, startTime : Instants, endTime : Instants,
     priority : {"medium"}, workingHours : {Absent}]

MainIdle ==
    /\ events = <<>>
    /\ nextId = 1
    /\ pc = [p \in Procs |-> "idle"]
    /\ op = [p \in Procs |-> "none"]
    /\ pending = [p \in Procs |-> <<>>]
    /\ conflicts = [p \in Procs |-> <<>>]
    /\ last = NoResponse
    /\ arg = 0

DetectInit ==
    /\ MainIdle
    /\ probe \in [kind : {"detect"}, event : DetectCandidates,
                  schedule : DetectSchedules(MaxScheduleLen),
                  out : { <<>> }, done : {FALSE}]

DetectCall ==
    /\ probe.kind = "detect"
    /\ ~probe.done
    /\ probe' = [probe EXCEPT !.out = detectConflictsForEvent(probe.event, probe.schedule),
                              !.done = TRUE]
    /\ UNCHANGED <<events, nextId, pc, op, pending, conflicts, last, arg>>

DetectNext == DetectCall

SpecDetect == DetectInit /\ [][DetectNext]_vars

---------------------------------------------------------------------------
(* detectConflictsForEvent on a schedule of three events, candidates on a quarter-hour
   grid *)

\* wire instants 09:00 + 15 min * q for q in 0..MaxQuarter
MaxQuarter == 10
QuarterTimes == { <<9 + (q \div 4), 15 * (q % 4)>> : q \in 0..MaxQuarter }

\* the normalized event of a window on the wire
ExampleEvent(id, startTime, endTime) ==
    normalizeEvent(WithId([startTime |-> startTime, endTime |-> endTime,
                           priority |-> "medium", workingHours |-> Absent], id))

ExampleSchedule ==
    << ExampleEvent(1, <<9, 0>>, <<10, 0>>),
       ExampleEvent(2, <<10, 0>>, <<11, 0>>),
       ExampleEvent(3, <<10, 30>>, <<11, 30>>) >>

\* candidates: every window of the grid, under the second event's id or a new id
ExampleCandidates ==
    { ExampleEvent(id, r[1], r[2]) :
        id \in {2, 4},
        r \in { x \in QuarterTimes \X QuarterTimes : GetTime(x[1]) < GetTime(x[2]) } }

ExampleInit ==
    /\ MainIdle
    /\ probe \in [kind : {"detect"}, event : ExampleCandidates,
                  schedule : {ExampleSchedule}, out : { <<>> }, done : {FALSE}]

SpecExample == ExampleInit /\ [][DetectNext]_vars

---------------------------------------------------------------------------
(* generatePriority's reading of the response text on its own *)

\* padding before and after the answer: at most MaxPad characters
MaxPad == 1
PadChars == {" ", "\n", "x"}

RECURSIVE PadsOfLen(_)
PadsOfLen(n) ==
    IF n = 0 THEN { <<>> }
    ELSE { Append(s, c) : s \in PadsOfLen(n - 1), c \in PadChars }

Pads == UNION { PadsOfLen(n) : n \in 0..MaxPad }

UpperCaseOf(c) ==
    CASE c = "l" -> "L" [] c = "o" -> "O" [] c = "w" -> "W" [] c = "h" -> "H"
      [] c = "i" -> "I" [] c = "g" -> "G" [] c = "m" -> "M" [] c = "e" -> "E"
      [] c = "d" -> "D" [] c = "u" -> "U"

\* a token in every mix of upper and lower case
RECURSIVE CaseVariants(_)
CaseVariants(tok) ==
    IF tok = <<>> THEN { <<>> }
    ELSE { <<c>> \o v : c \in {Head(tok), UpperCaseOf(Head(tok))},
                        v \in CaseVariants(Tail(tok)) }

\* answers that are no token
OtherAnswers ==
    { <<>>, <<"l", "o">>, <<"l", "o", "w", "w">>, <<"l", "o", " ", "w">>,
      <<"u", "r", "g", "e", "n", "t">>, <<"h", "i", "g", "h", " ", "l", "o", "w">> }

ProbeTexts ==
    { pre \o core \o post :
        pre \in Pads, post \in Pads,
        core \in CaseVariants(TextLow) \cup CaseVariants(TextMedium)
                   \cup CaseVariants(TextHigh) \cup OtherAnswers }

PriorityInit ==
    /\ MainIdle
    /\ probe \in [kind : {"priority"}, text : ProbeTexts, out : {"none"}, done : {FALSE}]

PriorityCall ==
    /\ probe.kind = "priority"
    /\ ~probe.done
    /\ probe' = [probe EXCEPT !.out = PriorityOfText(probe.text), !.done = TRUE]
    /\ UNCHANGED <<events, nextId, pc, op, pending, conflicts, last, arg>>

PriorityNext == PriorityCall

SpecPriority == PriorityInit /\ [][PriorityNext]_vars

---------------------------------------------------------------------------
(* getEvents and filterEventsByTag on the stores that creates can build *)

\* the ids of the stored events: at most one event under each
StoreIds == {1, 2, 3}
Tags == {"work", "home"}
TagLists == { <<"work">>, <<"home", "work">> }

\* stored events: a window of positive or zero length (createEvent checks neither)
StoreEvents ==
    { [id |-> i, startTime |-> r[1], endTime |-> r[2], priority |-> "medium",
       workingHours |-> Absent, tags |-> t] :
        i \in StoreIds, r \in { x \in Instants \X Instants : x[1] <= x[2] },
        t \in TagLists }

\* the stores that n creates build: each event passed the conflict check against the
\* events stored before it
RECURSIVE StoresOfLen(_)
StoresOfLen(n) ==
    IF n = 0 THEN { <<>> }
    ELSE UNION { { Append(m, e) :
                     e \in { x \in StoreEvents :
                               /\ ~MapHas(m, x.id)
                               /\ detectConflictsForEvent(x, MapValues(m)) = <<>> } } :
                 m \in StoresOfLen(n - 1) }

StoreInit ==
    /\ events \in UNION { StoresOfLen(n) : n \in 0..Cardinality(StoreIds) }
    /\ nextId = 1 + Len(events)
    /\ pc = [p \in Procs |-> "idle"]
    /\ op = [p \in Procs |-> "none"]
    /\ pending = [p \in Procs |-> <<>>]
    /\ conflicts = [p \in Procs |-> <<>>]
    /\ last = NoResponse
    /\ arg = 0
    /\ probe = NoProbe

\* a call of getEvents: the array it returns
GetEvents ==
    /\ probe' = [kind |-> "list", tag |-> "none", out |-> getEvents(events)]
    /\ UNCHANGED <<events, nextId, pc, op, pending, conflicts, last, arg>>

\* a call of filterEventsByTag: the array it returns
FilterEventsByTag(tag) ==
    /\ probe' = [kind |-> "filter", tag |-> tag, out |-> filterEventsByTag(events, tag)]
    /\ UNCHANGED <<events, nextId, pc, op, pending, conflicts, last, arg>>

StoreNext ==
    \/ GetEvents
    \/ \E tag \in Tags : FilterEventsByTag(tag)

SpecStore == StoreInit /\ [][StoreNext]_vars

---------------------------------------------------------------------------
(* createEvent and updateEventById on inputs that carry workingHours *)

\* the workingHours object of an input: { start: '09:00', end: '18:00' }
WorkingHours == "09:00-18:00"

\* inputs with a priority and a valid window, with and without workingHours
HoursInputs ==
    { [startTime |-> r[1], endTime |-> r[2], priority |-> "high", workingHours |-> wh] :
        r \in { x \in WireTimes \X WireTimes : GetTime(x[1]) < GetTime(x[2]) },
        wh \in {Absent, WorkingHours} }

HoursNext ==
    \/ \E p \in Procs, event \in HoursInputs : CreateEvent(p, event)
    \/ \E p \in Procs, eventId \in Ids, eventData \in HoursInputs :
          UpdateEventById(p, eventId, eventData)
    \/ \E p \in Procs, resp \in SuggestResponses : SuggestReturn(p, resp)
    \/ \E eventId \in Ids : DeleteEventById(eventId)

SpecHours == Init /\ [][HoursNext]_vars

---------------------------------------------------------------------------
(* POST /events and PUT /events/:id: validateMiddleware(eventSchema), the controller
   and the service method, up to the first await or the response *)

\* request bodies: priority is either missing or supplied
HttpBodies ==
    { [startTime |-> r[1], endTime |-> r[2], priority |-> pr, workingHours |-> Absent] :
        r \in InputRanges, pr \in {Absent, "high"} }

\* eventSchema's refine: data.endTime > data.startTime
SchemaAccepts(body) == GetTime(body.endTime) > GetTime(body.startTime)

\* eventSchema.parseAsync on an accepted body: priority has .default('medium')
SchemaParse(body) ==
    [body EXCEPT !.priority = IF body.priority = Absent THEN "medium" ELSE body.priority]

\* validateMiddleware: a ZodError becomes ApiError 400 and the controller never runs
ValidationFails(p, o) ==
    /\ Finish(p, o, "ValidationError", <<>>, <<>>, "none", <<>>)
    /\ UNCHANGED <<events, nextId>>

\* what the body of the request just received said about priority
BodyProbe(body) == [kind |-> "body", priority |-> body.priority]

\* POST /events
PostEvent(p, body) ==
    /\ FreeSlot(p)
    /\ IF ~SchemaAccepts(body)
       THEN ValidationFails(p, "create")
       ELSE /\ nextId <= MaxIds
            /\ nextId' = nextId + 1
            /\ PriorityStep(p, "create", WithId(SchemaParse(body), nextId))
    /\ arg' = 0
    /\ probe' = BodyProbe(body)

\* PUT /events/:id
PutEvent(p, eventId, body) ==
    /\ FreeSlot(p)
    /\ IF ~SchemaAccepts(body)
       THEN ValidationFails(p, "update")
       ELSE /\ IF ~MapHas(events, eventId)
               THEN /\ Finish(p, "update", "NotFound", <<>>, <<>>, "none", <<>>)
                    /\ UNCHANGED events
               ELSE PriorityStep(p, "update",
                                 MergeEvent(MapGet(events, eventId), SchemaParse(body)))
            /\ UNCHANGED nextId
    /\ arg' = eventId
    /\ probe' = BodyProbe(body)

\* the actions that requests through the routes can take: no request through the
\* routes ever waits for generatePriority
HttpNext ==
    \/ \E p \in Procs, body \in HttpBodies : PostEvent(p, body)
    \/ \E p \in Procs, eventId \in Ids, body \in HttpBodies : PutEvent(p, eventId, body)
    \/ \E p \in Procs, resp \in SuggestResponses : SuggestReturn(p, resp)
    \/ \E p \in Procs : SuggestFail(p)
    \/ \E eventId \in Ids : DeleteEventById(eventId)

SpecHttp == Init /\ [][HttpNext]_vars

---------------------------------------------------------------------------
(* ai.controller.ts: the standalone advisory operations, next to creates and deletes *)

AdvisoryOps ==
    {"autoReschedule", "improveDescription", "generateSummary", "naturalLanguageQuery"}

\* createEvent inputs that carry a priority and a valid range
PlainInputs ==
    { e \in CreateInputs : e.priority = "high" /\ GetTime(e.startTime) < GetTime(e.endTime) }

\* response.text() of autoRescheduleEvent: as for suggestBetterTime, and a fence that
\* holds the JSON text null
RescheduleResponses == SuggestResponses \cup { [fenced |-> TRUE, body |-> "null"] }

\* response.text() of the three text operations; req.body.query
AdvisoryTexts == {"", "text"}
Queries == {"", "what is next"}

\* AiService.autoRescheduleEvent lines 165-178: the parsed suggestion, or null
RescheduleSuggestionOf(resp) ==
    IF resp.fenced /\ resp.body # ""
    THEN IF resp.body = "null" THEN "null"
         ELSE IF JsonParses(resp.body) THEN resp.body ELSE "null"
    ELSE "null"

\* the controller awaits the AiService method: the request waits for the gateway
AwaitAdvisory(p, o, ev) ==
    /\ pc' = [pc EXCEPT ![p] = "advisory"]
    /\ op' = [op EXCEPT ![p] = o]
    /\ pending' = [pending EXCEPT ![p] = ev]
    /\ last' = StepOf(p, o, "none", <<>>, <<>>, "none", <<>>)
    /\ UNCHANGED conflicts

\* POST /auto-reschedule/:id, up to the await
AutoReschedule(p, eventId) ==
    /\ FreeSlot(p)
    /\ LET eventToReschedule == getEventById(events, eventId)
       IN  IF eventToReschedule = <<>>
           THEN Finish(p, "autoReschedule", "NotFound", <<>>, <<>>, "none", <<>>)
           ELSE AwaitAdvisory(p, "autoReschedule", eventToReschedule)
    /\ arg' = eventId
    /\ UNCHANGED <<events, nextId, probe>>

\* GET /improve-description/:id, up to the await
ImproveDescription(p, eventId) ==
    /\ FreeSlot(p)
    /\ LET event == getEventById(events, eventId)
       IN  IF event = <<>>
           THEN Finish(p, "improveDescription", "NotFound", <<>>, <<>>, "none", <<>>)
           ELSE AwaitAdvisory(p, "improveDescription", event)
    /\ arg' = eventId
    /\ UNCHANGED <<events, nextId, probe>>

\* GET /generate-summary, up to the await
GenerateSummary(p) ==
    /\ FreeSlot(p)
    /\ LET allEvents == getEvents(events)
       IN  IF Len(allEvents) = 0
           THEN Finish(p, "generateSummary", "NotFound", <<>>, <<>>, "none", <<>>)
           ELSE AwaitAdvisory(p, "generateSummary", <<>>)
    /\ arg' = 0
    /\ UNCHANGED <<events, nextId, probe>>

\* POST /natural-language-query, up to the await
NaturalLanguageQuery(p, query) ==
    /\ FreeSlot(p)
    /\ IF query = ""
       THEN Finish(p, "naturalLanguageQuery", "BadRequest", <<>>, <<>>, "none", <<>>)
       ELSE AwaitAdvisory(p, "naturalLanguageQuery", <<>>)
    /\ arg' = 0
    /\ UNCHANGED <<events, nextId, probe>>

\* a slip: the suggestion is not tested, null is answered with 200
AutoRescheduleReturnUntested(p, resp) ==
    /\ pc[p] = "advisory" /\ op[p] = "autoReschedule"
    /\ Finish(p, "autoReschedule", "Success", <<>>, <<>>, RescheduleSuggestionOf(resp), <<>>)
    /\ arg' = 0
    /\ probe' = [kind |-> "reschedule", response |-> resp]
    /\ UNCHANGED <<events, nextId>>

\* autoRescheduleEvent resolves: 500 for no suggestion, 200 with the suggestion
AutoRescheduleReturn(p, resp) ==
    /\ pc[p] = "advisory" /\ op[p] = "autoReschedule"
    /\ LET suggestion == RescheduleSuggestionOf(resp)
       IN  Finish(p, "autoReschedule",
                  IF suggestion = "null" THEN "AdvisoryUnavailable" ELSE "Success",
                  <<>>, <<>>, suggestion, <<>>)
    /\ arg' = 0
    /\ probe' = [kind |-> "reschedule", response |-> resp]
    /\ UNCHANGED <<events, nextId>>

\* improveDescription, generateSummary or naturalLanguageQuery resolves with the text:
\* 500 for an empty text, 200 otherwise
TextReturn(p, text) ==
    /\ pc[p] = "advisory" /\ op[p] # "autoReschedule"
    /\ Finish(p, op[p], IF text = "" THEN "AdvisoryUnavailable" ELSE "Success",
              <<>>, <<>>, "none", <<>>)
    /\ arg' = 0
    /\ probe' = [kind |-> "text", text |-> text]
    /\ UNCHANGED <<events, nextId>>

\* model.generateContent rejects (lines 161, 196, 227, 261): the request ends in an error
AdvisoryFail(p) ==
    /\ pc[p] = "advisory"
    /\ Finish(p, op[p], "AdvisoryError", <<>>, <<>>, "none", <<>>)
    /\ arg' = 0
    /\ UNCHANGED <<events, nextId, probe>>

AdvisoryNext ==
    \/ \E p \in Procs, event \in PlainInputs : CreateEvent(p, event)
    \/ \E p \in Procs, resp \in SuggestResponses : SuggestReturn(p, resp)
    \/ \E eventId \in Ids : DeleteEventById(eventId)
    \/ \E p \in Procs, eventId \in Ids : AutoReschedule(p, eventId)
    \/ \E p \in Procs, eventId \in Ids : ImproveDescription(p, eventId)
    \/ \E p \in Procs : GenerateSummary(p)
    \/ \E p \in Procs, query \in Queries : NaturalLanguageQuery(p, query)
    \/ \E p \in Procs, resp \in RescheduleResponses : AutoRescheduleReturn(p, resp)
    \/ \E p \in Procs, text \in AdvisoryTexts : TextReturn(p, text)
    \/ \E p \in Procs : AdvisoryFail(p)

SpecAdvisory == Init /\ [][AdvisoryNext]_vars

---------------------------------------------------------------------------
(* Claims *)

\* the half-open overlap of two stored events, as the claims state it
IntervalsOverlap(a, b) == a.startTime < b.endTime /\ a.endTime > b.startTime

\* the elements of a sequence
Range(s) == { s[i] : i \in DOMAIN s }

\* C1: after any interleaving of create, update and delete requests the store never
\* holds two events with different ids whose intervals overlap.
C1_NoOverlapInStore ==
    \A i, j \in DOMAIN events :
        events[i].id # events[j].id => ~IntervalsOverlap(events[i], events[j])

\* C1 witness: a request is suspended at its priority call while another request has
\* just committed an event that overlaps the suspended request's candidate.
C1_Witness ==
    /\ last.outcome = "Committed"
    /\ \E p \in Procs :
          /\ pc[p] = "priority"
          /\ normalizeEvent(pending[p][1]).id # last.event[1].id
          /\ IntervalsOverlap(normalizeEvent(pending[p][1]), last.event[1])
          /\ last.event[1] \in Range(events)

\* C2: detectConflictsForEvent returns exactly the events of the schedule with another
\* id that overlap the candidate half-open; an event that only touches the candidate
\* (its end is the candidate's start, or its start the candidate's end) is not returned.
C2_DetectExact ==
    (probe.kind = "detect" /\ probe.done) =>
        LET c == probe.event
        IN  /\ Range(probe.out) =
                 { e \in Range(probe.schedule) :
                     e.id # c.id /\ c.startTime < e.endTime /\ c.endTime > e.startTime }
            /\ \A e \in Range(probe.out) :
                 e.endTime # c.startTime /\ e.startTime # c.endTime

\* C2 witness: a call that returned a conflict and left out an event of another id
\* that touches the candidate.
C2_Witness ==
    /\ probe.kind = "detect" /\ probe.done
    /\ probe.out # <<>>
    /\ probe.event.startTime < probe.event.endTime
    /\ \E e \in Range(probe.schedule) :
          /\ e.id # probe.event.id
          /\ e.startTime < e.endTime
          /\ e.endTime = probe.event.startTime
          /\ e \notin Range(probe.out)

\* the stored events of another id that overlap candidate c
OverlappingStored(c, store) ==
    { e \in Range(store) : e.id # c.id /\ IntervalsOverlap(c, e) }

\* C3: a create request whose candidate overlaps a stored event ends in
\* ConflictReported, returns exactly the overlapping stored events and leaves the
\* store unchanged.
C3_ConflictingCreateReports ==
    [][ /\ (/\ last'.op = "create"
            /\ last'.checked # <<>>
            /\ OverlappingStored(last'.checked[1], events) # {})
           => /\ events' = events
              /\ Range(last'.conflicts) = OverlappingStored(last'.checked[1], events)
              /\ \E p \in Procs : pc'[p] = "suggest" /\ conflicts'[p] = last'.conflicts
        /\ \A p \in Procs :
             (op[p] = "create" /\ pc[p] = "suggest" /\ pc'[p] # "suggest")
                => /\ last'.outcome = "ConflictReported"
                   /\ last'.conflicts = conflicts[p]
                   /\ events' = events
      ]_vars

\* C4: a create request whose candidate overlaps no stored event at conflict-check
\* time ends in Committed, returns the stored event, and the store afterwards is the
\* store before plus that one event under its new id.
C4_CleanCreateCommits ==
    [][ (/\ last'.op = "create"
         /\ last'.checked # <<>>
         /\ \A e \in Range(events) : ~IntervalsOverlap(last'.checked[1], e))
        => /\ last'.outcome = "Committed"
           /\ last'.event = last'.checked
           /\ ~ \E e \in Range(events) : e.id = last'.checked[1].id
           /\ events' = Append(events, last'.checked[1])
      ]_vars

\* C4 witness: a create that waited for its priority has just committed next to an
\* event that was already stored.
C4_Witness ==
    /\ last.op = "create" /\ last.outcome = "Committed" /\ last.from = "priority"
    /\ Len(events) = 2
    /\ events[2] = last.event[1]

\* C5: every stored event has a priority in {low, medium, high}.
C5_StoredPriorityValid ==
    \A i \in DOMAIN events : events[i].priority \in {"low", "medium", "high"}

\* C5 witness: a request whose input had no priority has just committed its event,
\* with the priority the advisory step gave it.
C5_Witness ==
    /\ last.outcome = "Committed" /\ last.from = "priority"
    /\ last.event[1].priority = "medium"
    /\ last.event[1] \in Range(events)

\* C6: no request ends in an error at its priority step, whatever the outcome of the
\* advisory call.
C6_PriorityNeverFails ==
    last.from = "priority" => last.outcome # "AdvisoryError"

\* the text is the token, in any case, between leading and trailing white space
ReadsAs(text, tok) ==
    \E a \in 0..Len(text) :
        /\ a + Len(tok) <= Len(text)
        /\ \A i \in 1..a : text[i] \in {" ", "\n", "\t"}
        /\ \A i \in (a + Len(tok) + 1)..Len(text) : text[i] \in {" ", "\n", "\t"}
        /\ \A k \in 1..Len(tok) : text[a + k] \in {tok[k], UpperCaseOf(tok[k])}

\* C7: generatePriority returns the token when the response, lower-cased and trimmed,
\* is exactly low, medium or high, and medium for every other response.
C7_PriorityOfResponse ==
    (probe.kind = "priority" /\ probe.done) =>
        probe.out = IF ReadsAs(probe.text, TextLow) THEN "low"
                    ELSE IF ReadsAs(probe.text, TextHigh) THEN "high"
                    ELSE "medium"

\* C7 witness: a response that is the token high only after lower-casing and trimming
\* has been read as high.
C7_Witness ==
    /\ probe.kind = "priority" /\ probe.done
    /\ probe.out = "high"
    /\ probe.text # TextHigh
    /\ probe.text[Len(probe.text)] = "\n"
    /\ \E i \in DOMAIN probe.text : probe.text[i] = "H"

\* C8: a request that found conflicts ends in ConflictReported with those conflicts
\* and a suggested start time or null, whatever the outcome of the suggestion call.
C8_SuggestionNeverFails ==
    last.from = "suggest" =>
        /\ last.outcome = "ConflictReported"
        /\ last.conflicts # <<>>
        /\ last.suggestion \in {JsonObject, "null"}

\* C9: every stored event starts before it ends.
C9_StoredRangeValid ==
    \A i \in DOMAIN events : events[i].startTime < events[i].endTime

\* C10: an update of a stored event to a time window that overlaps no other stored
\* event succeeds; afterwards the store holds the new values under that id, as many
\* events as before, and every other event unchanged.
C10_CleanUpdateReplaces ==
    [][ /\ \A p \in Procs :
             (/\ op[p] = "update" /\ pc[p] = "priority" /\ pc'[p] # "priority"
              /\ \E e \in Range(events) : e.id = pending[p][1].id
              /\ normalizeEvent(pending[p][1]).startTime < normalizeEvent(pending[p][1]).endTime
              /\ OverlappingStored(normalizeEvent(pending[p][1]), events) = {})
                => last'.outcome = "Committed"
        /\ (/\ last'.op = "update"
            /\ last'.checked # <<>>
            /\ \E e \in Range(events) : e.id = last'.checked[1].id
            /\ OverlappingStored(last'.checked[1], events) = {})
           => /\ last'.outcome = "Committed"
              /\ last'.event = last'.checked
              /\ Len(events') = Len(events)
              /\ \A i \in DOMAIN events :
                   events'[i] = IF events[i].id = last'.checked[1].id
                                THEN last'.checked[1] ELSE events[i]
      ]_vars

\* C11: on update the candidate is never reported as conflicting with its own stored
\* version: the conflicts of an update's check never hold the candidate's id, and an
\* update whose new window overlaps the event's own old window and no other stored
\* event commits.
C11_UpdateExcludesItself ==
    [][ (last'.op = "update" /\ last'.checked # <<>>)
        => LET c == last'.checked[1]
           IN  /\ \A e \in Range(last'.conflicts) : e.id # c.id
               /\ \A i \in DOMAIN events :
                    (/\ events[i].id = c.id
                     /\ IntervalsOverlap(c, events[i])
                     /\ OverlappingStored(c, events) = {})
                       => /\ last'.outcome = "Committed"
                          /\ events'[i] = c
      ]_vars

\* C11 witness: an update has just committed a window that overlaps, without being
\* equal to, the window it replaced.
C11_Witness ==
    /\ last.op = "update" /\ last.outcome = "Committed"
    /\ last.replaced # <<>>
    /\ IntervalsOverlap(last.event[1], last.replaced[1])
    /\ last.event[1].startTime # last.replaced[1].startTime
    /\ last.event[1] \in Range(events)

\* C12: an update of an id that is not in the store is rejected as NotFound, makes no
\* advisory call and leaves the store unchanged.
C12_UpdateOfMissingId ==
    [][ (/\ last'.op = "update" /\ last'.from = "idle"
         /\ ~ \E e \in Range(events) : e.id = arg')
        => /\ last'.outcome = "NotFound"
           /\ events' = events
           /\ pc' = pc /\ pending' = pending /\ conflicts' = conflicts
      ]_vars

\* C12 witness: an update of an id that is not stored has just been rejected, while
\* another event is stored and another request waits for its advisory call.
C12_Witness ==
    /\ last.op = "update" /\ last.outcome = "NotFound"
    /\ arg \in Ids
    /\ events # <<>>
    /\ \A e \in Range(events) : e.id # arg
    /\ \E p \in Procs : pc[p] # "idle"

\* C13: an update whose candidate overlaps another stored event ends in
\* ConflictReported and leaves the store unchanged: the event keeps its old stored
\* values and no other event changes.
C13_ConflictingUpdateReports ==
    [][ /\ (/\ last'.op = "update"
            /\ last'.checked # <<>>
            /\ OverlappingStored(last'.checked[1], events) # {})
           => /\ events' = events
              /\ \E p \in Procs : pc[p] # "suggest" /\ pc'[p] = "suggest"
        /\ \A p \in Procs :
             (op[p] = "update" /\ pc[p] = "suggest" /\ pc'[p] # "suggest")
                => /\ last'.outcome = "ConflictReported"
                   /\ last'.conflicts = conflicts[p]
                   /\ events' = events
      ]_vars

\* C14: deleting an id that is not in the store returns the not-found condition and
\* leaves the store unchanged.
C14_DeleteOfMissingId ==
    [][ (last'.op = "delete" /\ ~ \E e \in Range(events) : e.id = arg')
        => /\ last'.outcome = "NotFound"
           /\ last'.event = <<>>
           /\ events' = events
      ]_vars

\* C14 witness: a delete of an id that is not stored has just been answered, while
\* another event is stored.
C14_Witness ==
    /\ last.op = "delete" /\ last.outcome = "NotFound"
    /\ arg \in Ids
    /\ events # <<>>
    /\ \A e \in Range(events) : e.id # arg

\* C15: deleting an id that is in the store returns the event that was stored under
\* that id and removes exactly that event: afterwards get(id) is not-found and every
\* other stored event is unchanged; no conflict check runs and no advisory call is
\* made.
C15_DeleteRemovesExactlyOne ==
    [][ \A i \in DOMAIN events :
          (last'.op = "delete" /\ events[i].id = arg')
            => /\ last'.outcome = "Deleted"
               /\ last'.event = <<events[i]>>
               /\ getEventById(events', arg') = <<>>
               /\ Len(events') = Len(events) - 1
               /\ \A j \in DOMAIN events' :
                    events'[j] = IF j < i THEN events[j] ELSE events[j + 1]
               /\ last'.checked = <<>> /\ last'.conflicts = <<>>
               /\ pc' = pc /\ pending' = pending /\ conflicts' = conflicts
      ]_vars

\* C15 witness: a stored event has just been deleted while another event stays stored
\* and a request waits for its advisory call.
C15_Witness ==
    /\ last.op = "delete" /\ last.outcome = "Deleted"
    /\ last.event[1].id = arg
    /\ events # <<>>
    /\ \A e \in Range(events) : e.id # arg
    /\ \E p \in Procs : pc[p] # "idle"

\* the place of the event with this id in the store
IndexOfId(m, id) == CHOOSE i \in DOMAIN m : m[i].id = id

\* C16: getEvents returns every stored event exactly once, in ascending startTime
\* order, events of equal startTime in the order in which their ids were inserted,
\* and does not change the store.
C16_ListSortedStable ==
    [][ probe'.kind = "list"
        => LET out == probe'.out
           IN  /\ events' = events
               /\ Len(out) = Len(events)
               /\ \A e \in Range(events) : \E i \in DOMAIN out : out[i] = e
               /\ \A i, j \in DOMAIN out :
                    i < j => /\ out[i].startTime <= out[j].startTime
                             /\ out[i].startTime = out[j].startTime
                                  => IndexOfId(events, out[i].id)
                                        < IndexOfId(events, out[j].id)
      ]_vars

\* C16 witness: a list of a store whose insertion order is not its start-time order
\* and that holds two events of equal startTime.
C16_Witness ==
    /\ probe.kind = "list"
    /\ probe.out # events
    /\ \E i, j \in DOMAIN probe.out :
          i < j /\ probe.out[i].startTime = probe.out[j].startTime

\* a schedule that is the snapshot of a store creates can build, and a candidate under
\* a new id
SnapshotForCreate(c, schedule) ==
    /\ c.startTime < c.endTime
    /\ \A i \in DOMAIN schedule :
          /\ schedule[i].id # c.id
          /\ schedule[i].startTime < schedule[i].endTime
          /\ \A j \in DOMAIN schedule :
                i # j => /\ schedule[i].id # schedule[j].id
                         /\ ~IntervalsOverlap(schedule[i], schedule[j])

\* C18: the conflicts returned to a create or update request are in start-time
\* ascending order, whatever the order in which the conflicting events were inserted
\* into the store, and the detector does not change the schedule it is given.
C18_ConflictsInStartOrder ==
    [][ (/\ probe.kind = "detect" /\ ~probe.done /\ probe'.done
         /\ SnapshotForCreate(probe.event, probe.schedule))
        => /\ probe'.schedule = probe.schedule
           /\ \A i, j \in DOMAIN probe'.out :
                i < j => probe'.out[i].startTime <= probe'.out[j].startTime
      ]_vars

\* C19: filterEventsByTag returns exactly the stored events whose tags include the
\* tag, in the relative order in which getEvents returns them (ascending startTime),
\* and does not change the store. Stated for the stores whose events all start before
\* they end.
C19_FilterInListOrder ==
    [][ (/\ probe'.kind = "filter"
         /\ \A e \in Range(events) : e.startTime < e.endTime)
        => /\ events' = events
           /\ \A e \in Range(events) :
                (\E k \in DOMAIN e.tags : e.tags[k] = probe'.tag)
                    <=> (\E i \in DOMAIN probe'.out : probe'.out[i] = e)
           /\ \A i, j \in DOMAIN probe'.out :
                i < j => /\ probe'.out[i] # probe'.out[j]
                         /\ probe'.out[i] \in Range(events)
                         /\ probe'.out[i].startTime <= probe'.out[j].startTime
      ]_vars

\* the candidate [10:15,10:45) of the example, under a new id
ExampleCandidate == ExampleEvent(4, <<10, 15>>, <<10, 45>>)

\* C20 as stated: given the schedule [09:00,10:00), [10:00,11:00), [10:30,11:30), the
\* candidate [10:15,10:45) conflicts with exactly the third event, not the second.
C20_ExampleThirdOnly ==
    (/\ probe.kind = "detect" /\ probe.done
     /\ probe.schedule = ExampleSchedule /\ probe.event = ExampleCandidate)
        => probe.out = <<ExampleSchedule[3]>>

\* C20 as amended: given the schedule [09:00,10:00), [10:00,11:00), [10:30,11:30), the
\* candidate [10:15,10:45) conflicts with exactly the second and the third event, and
\* not with the first.
C20_ExampleSecondAndThird ==
    (/\ probe.kind = "detect" /\ probe.done
     /\ probe.schedule = ExampleSchedule /\ probe.event = ExampleCandidate)
        => probe.out = <<ExampleSchedule[2], ExampleSchedule[3]>>

\* C20 witness: the detector has answered for the candidate [10:15,10:45) against the
\* schedule of the example.
C20_Witness ==
    /\ probe.kind = "detect" /\ probe.done
    /\ probe.schedule = ExampleSchedule
    /\ probe.event.id = 4
    /\ probe.event.startTime = 10 * 60 + 15 /\ probe.event.endTime = 10 * 60 + 45
    /\ Len(probe.out) = 2

\* C21: workingHours is input-only: no stored event carries a workingHours field,
\* also after a create or an update whose input supplied workingHours.
C21_WorkingHoursNotStored ==
    \A i \in DOMAIN events : events[i].workingHours = Absent

\* the ids that the step gave to new candidates: of a request that went to its
\* priority call, or whose conflict check ran
CandidateIds(before, after, response) ==
    { after[2][p][1].id : p \in { q \in Procs : before[1][q] = "idle"
                                                /\ after[1][q] = "priority" } }
        \cup { response.checked[k].id : k \in DOMAIN response.checked }

\* C22: event ids are unique and stable: every stored event is stored under its own
\* id, each create assigns an id different from every id assigned before, and an
\* update never changes the id of the event it replaces.
C22_IdsUniqueAndStable ==
    [][ /\ \A i, j \in DOMAIN events' : i # j => events'[i].id # events'[j].id
        /\ (last'.op = "create" /\ last'.from = "idle")
             => \A n \in CandidateIds(<<pc, pending>>, <<pc', pending'>>, last') :
                  /\ n \notin 1..(nextId - 1)
                  /\ \A e \in Range(events) : e.id # n
                  /\ \A p \in Procs : pending[p] # <<>> => pending[p][1].id # n
        /\ (last'.op = "update" /\ last'.from = "idle")
             => \A n \in CandidateIds(<<pc, pending>>, <<pc', pending'>>, last') :
                  n = arg'
        /\ last'.op = "update"
             => /\ \A i \in DOMAIN events : i \in DOMAIN events'
                                               /\ events'[i].id = events[i].id
                /\ \A k \in DOMAIN last'.event :
                     \E i \in DOMAIN events' : /\ events'[i] = last'.event[k]
                                                /\ (i \in DOMAIN events
                                                      => events[i].id = last'.event[k].id)
      ]_vars

\* C22 witness: after two creates, an update has just replaced one of the two stored
\* events by a different window under the same id.
C22_Witness ==
    /\ last.op = "update" /\ last.outcome = "Committed"
    /\ last.replaced # <<>>
    /\ last.replaced[1].id = last.event[1].id
    /\ last.replaced[1].startTime # last.event[1].startTime
    /\ nextId = 3
    /\ Len(events) = 2

\* C23 as stated: in every create and update request the schedule snapshot used for
\* conflict detection is read before any suspension of that request at an advisory
\* call, and the put of a committing request happens only after the request's advisory
\* call, if any, has returned.
C23_SnapshotBeforeSuspension ==
    [][ /\ (last'.op \in {"create", "update"} /\ last'.checked # <<>>)
             => last'.from = "idle"
        /\ (last'.op \in {"create", "update"} /\ events' # events)
             => \A p \in Procs : pc'[p] # pc[p] => pc'[p] = "idle"
      ]_vars

\* C23 as amended: in every create and update request the schedule snapshot used for
\* conflict detection is read after the request's priority call, if any, has returned:
\* at the start of the request or on the return of that call, never later; a
\* committing request puts in the step that read the snapshot, with no suspension in
\* between, and is not suspended afterwards; a request that found conflicts puts
\* nothing, neither before nor after its suggestion call.
C23_SnapshotAfterPriorityCall ==
    [][ /\ (last'.op \in {"create", "update"} /\ last'.checked # <<>>)
             => /\ last'.from \in {"idle", "priority"}
                /\ IF last'.outcome = "Committed"
                   THEN /\ last'.checked[1] \in Range(events')
                        /\ \A e \in Range(events') :
                             e = last'.checked[1] \/ e \in Range(events)
                   ELSE /\ events' = events
                        /\ \E p \in Procs : pc[p] # "suggest" /\ pc'[p] = "suggest"
        /\ (last'.op \in {"create", "update"} /\ events' # events)
             => /\ last'.checked # <<>> /\ last'.outcome = "Committed"
                /\ \A p \in Procs : pc'[p] # pc[p] => pc'[p] = "idle"
        /\ (last'.op \in {"create", "update"} /\ last'.from = "suggest")
             => events' = events /\ last'.checked = <<>>
      ]_vars

\* C23 witness: an update that was suspended at its priority call has just read the
\* snapshot and committed, replacing its stored version next to another stored event.
C23_Witness ==
    /\ last.op = "update" /\ last.outcome = "Committed" /\ last.from = "priority"
    /\ last.checked = last.event
    /\ last.replaced # <<>>
    /\ Len(events) = 2

\* C24: a create or update whose time range is invalid (startTime >= endTime) is
\* rejected with InvalidTimeRange before any advisory call is made for it: no request
\* waits for its priority call with an invalid range, no conflict check examines an
\* invalid range, and a rejection as InvalidTimeRange is the request's first step.
C24_InvalidRangeRejectedFirst ==
    /\ \A p \in Procs :
          pc[p] = "priority" =>
              GetTime(pending[p][1].startTime) < GetTime(pending[p][1].endTime)
    /\ last.checked # <<>> => last.checked[1].startTime < last.checked[1].endTime
    /\ last.outcome = "InvalidTimeRange" => last.from = "idle"

\* C25: per create or update request, the priority advisory call is made exactly when
\* the request's input carries no priority, and a supplied priority is stored
\* unchanged; the suggestion call is made only after a non-empty conflict set was
\* found, at most once, and never by a request that ends in Committed.
C25_AdvisoryCallsAsNeeded ==
    /\ ( /\ probe.kind = "body"
         /\ last.op \in {"create", "update"} /\ last.from = "idle"
         /\ last.outcome \notin {"ValidationError", "NotFound"} ) =>
           /\ (\E p \in Procs : pc[p] = "priority" /\ op[p] = last.op)
                  <=> probe.priority = Absent
           /\ (probe.priority # Absent /\ last.outcome = "Committed") =>
                  last.event[1].priority = probe.priority
    /\ \A p \in Procs : pc[p] = "suggest" => conflicts[p] # <<>>
    /\ last.from = "suggest" => last.outcome \notin {"none", "Committed"}

\* C26: an update never inserts an id that is absent from the store at the moment it
\* commits: the id of the event a committing update puts is stored just before the
\* put, and the store holds as many events after it as before.
C26_UpdateNeverInserts ==
    [][ (last'.op = "update" /\ last'.outcome = "Committed") =>
            /\ \E i \in DOMAIN events : events[i].id = last'.event[1].id
            /\ Len(events') = Len(events) ]_vars

\* C27: no step of a standalone advisory operation (autoReschedule, improveDescription,
\* generateSummary, naturalLanguageQuery) changes the store, whatever the gateway
\* answers and when it fails; autoReschedule of an id that is not stored ends at once
\* in NotFound and no request begins to wait for the gateway; autoReschedule whose
\* gateway answer holds no fenced JSON object ends in a failure, never in a success.
C27_AdvisoryOpsLeaveStore ==
    [][ last'.op \in AdvisoryOps =>
          /\ events' = events
          /\ ( /\ last'.op = "autoReschedule" /\ last'.from = "idle"
               /\ \A i \in DOMAIN events : events[i].id # arg' ) =>
                 /\ last'.outcome = "NotFound"
                 /\ pc' = pc
          /\ ( /\ last'.op = "autoReschedule" /\ last'.from = "advisory"
               /\ last'.outcome # "AdvisoryError"
               /\ ~(probe'.response.fenced /\ probe'.response.body = JsonObject) ) =>
                 last'.outcome = "AdvisoryUnavailable" ]_vars

\* C27 witness: an autoReschedule of a stored event has just ended in a failure on a
\* fenced answer that is no JSON object, and the store still holds its events.
C27_Witness ==
    /\ last.op = "autoReschedule" /\ last.from = "advisory"
    /\ last.outcome = "AdvisoryUnavailable"
    /\ probe.kind = "reschedule" /\ probe.response.fenced /\ probe.response.body = "not json"
    /\ Len(events) = 2

\* C28: with advisory calls that return or fail, every create and update request
\* reaches a final outcome, which is Committed, ConflictReported, InvalidTimeRange or
\* NotFound, and waits for no other request: a request that has ended has ended in one
\* of these four outcomes, and a request that waits for an advisory call can take its
\* next step as soon as the call returns, whatever the other requests do.
C28_RequestsReachFinalOutcome ==
    /\ (last.op \in {"create", "update"} /\ last.outcome # "none") =>
          last.outcome \in {"Committed", "ConflictReported", "InvalidTimeRange", "NotFound"}
    /\ \A p \in Procs :
          /\ pc[p] = "priority" => ENABLED (\E text \in PriorityTexts : PriorityReturn(p, text))
          /\ pc[p] = "suggest" => ENABLED (\E resp \in SuggestResponses : SuggestReturn(p, resp))

====
